---- MODULE Spec2Model ----
(***************************************************************************)
(* Model of the CPU emulator of src/main.rs: a struct CPU with 16 u8       *)
(* registers, 4096 bytes of memory, a 16-entry u16 call stack, and the     *)
(* fetch / decode / execute loop CPU::run with the four instructions       *)
(* HALT (0x0000), RETURN (0x00EE), CALL nnn (0x2nnn) and ADD (0x8xy4).     *)
(* One step of the model is one iteration of the loop of CPU::run.         *)
(***************************************************************************)
EXTENDS Integers, Naturals, Sequences, FiniteSets, TLC

VARIABLES
    registers,           \* CPU.registers: [u8; 16]
    position_in_memory,  \* CPU.position_in_memory: usize
    memory,              \* CPU.memory: [u8; 4096], kept as the bytes the caller stored;
                         \* every other byte is the 0 of construction
    stack,               \* CPU.stack: [u16; 16]
    stack_pointer,       \* CPU.stack_pointer: usize
    state,               \* "Running" (inside run), "Halted" (run returned), "Faulted" (run panicked)
    fault,               \* the panic that ended the run, NoFault while there is none
    opcode,              \* local `opcode` of run: the last word fetched
    p,                   \* local `p` of read_opcode: the address of the last fetch
    sp,                  \* local `sp` of call: stack_pointer as the last CALL found it
    seed                 \* the registers as the caller seeded them before run

vars == <<registers, position_in_memory, memory, stack, stack_pointer,
          state, fault, opcode, p, sp, seed>>

----------------------------------------------------------------------------
(* Sizes fixed by the types of struct CPU. *)

NumRegisters == 16
MemSize == 4096
StackSize == 16
CarryFlag == 15

U8 == 256
U16 == 65536

----------------------------------------------------------------------------
(* Bit arithmetic on unsigned integers, bit by bit. *)

RECURSIVE BitAnd(_, _)
BitAnd(a, b) ==
    IF a = 0 \/ b = 0 THEN 0
    ELSE (a % 2) * (b % 2) + 2 * BitAnd(a \div 2, b \div 2)

RECURSIVE BitOr(_, _)
BitOr(a, b) ==
    IF a = 0 THEN b
    ELSE IF b = 0 THEN a
    ELSE (IF (a % 2) + (b % 2) > 0 THEN 1 ELSE 0) + 2 * BitOr(a \div 2, b \div 2)

Shl16(a, n) == (a * (2 ^ n)) % U16
Shr(a, n) == a \div (2 ^ n)
AsU8(a) == a % U8
AsU16(a) == a % U16

----------------------------------------------------------------------------
(* Panics.  A panic ends run; its message is kept in `fault`. *)

NoFault == [kind |-> "none", info |-> <<>>]
IndexOutOfBounds(len, index) == [kind |-> "index out of bounds", info |-> <<len, index>>]
StackOverflow == [kind |-> "Stack overflow", info |-> <<>>]
StackUnderflow == [kind |-> "Stack underflow", info |-> <<>>]
NotYetImplemented(op) == [kind |-> "not yet implemented: opcode", info |-> <<op>>]

(* The bounds check of an indexing expression arr[i] on an array of len elements. *)
InBounds(i, len) == i < len

----------------------------------------------------------------------------
(* memory[i] for an index within bounds: the byte the caller stored there,  *)
(* 0 where the caller stored none.                                          *)
Byte(mem, i) == IF i \in DOMAIN mem THEN mem[i] ELSE 0

(* read_opcode with p checked and p + 1 not: past the end it reads a 0. *)
ReadOpcode_OneCheck(mem, pc) ==
    IF ~InBounds(pc, MemSize)
    THEN [ok |-> FALSE, word |-> 0, panic |-> IndexOutOfBounds(MemSize, pc)]
    ELSE [ok |-> TRUE,
          word |-> BitOr(Shl16(Byte(mem, pc), 8), Byte(mem, pc + 1)),
          panic |-> NoFault]

(* read_opcode: the two bytes at p and p + 1 combined into one u16, or the  *)
(* panic of the first indexing expression that is out of bounds.            *)
ReadOpcode(mem, pc) ==
    IF ~InBounds(pc, MemSize)
    THEN [ok |-> FALSE, word |-> 0, panic |-> IndexOutOfBounds(MemSize, pc)]
    ELSE IF ~InBounds(pc + 1, MemSize)
    THEN [ok |-> FALSE, word |-> 0, panic |-> IndexOutOfBounds(MemSize, pc + 1)]
    ELSE [ok |-> TRUE,
          word |-> BitOr(Shl16(Byte(mem, pc), 8), Byte(mem, pc + 1)),
          panic |-> NoFault]

(* The decoding at the head of the loop body of run. *)
DecodeC(op) == AsU8(Shr(BitAnd(op, 61440), 12))
DecodeX(op) == AsU8(Shr(BitAnd(op, 3840), 8))

(* y decoded with the mask and shift of x. *)
DecodeY_AsX(op) == AsU8(Shr(BitAnd(op, 3840), 8))

DecodeY(op) == AsU8(Shr(BitAnd(op, 240), 4))
DecodeD(op) == AsU8(Shr(BitAnd(op, 15), 0))

(* nnn decoded with the mask 0xFF. *)
DecodeNNN_ByteMask(op) == BitAnd(op, 255)

(* nnn taken as the whole word, with no mask. *)
DecodeNNN_NoMask(op) == op

(* get memory address from opcode *)
DecodeNNN(op) == BitAnd(op, 4095)

(* The match with the arm (0, _, _, _) => return. *)
Dispatch_HaltOnClassZero(op) ==
    LET c == DecodeC(op)
        d == DecodeD(op)
    IN  IF c = 0 THEN "halt"
        ELSE IF c = 2 THEN "call"
        ELSE IF c = 8 /\ d = 4 THEN "add_xy"
        ELSE "todo"

(* The match with the arm (0x8, _, _, _) => self.add_xy(x, y). *)
Dispatch_AddAnyD(op) ==
    LET c == DecodeC(op)
        x == DecodeX(op)
        y == DecodeY(op)
        d == DecodeD(op)
    IN  IF c = 0 /\ x = 0 /\ y = 0 /\ d = 0 THEN "halt"
        ELSE IF c = 0 /\ x = 0 /\ y = 14 /\ d = 14 THEN "ret"
        ELSE IF c = 2 THEN "call"
        ELSE IF c = 8 THEN "add_xy"
        ELSE "todo"

(* The match of run: the first arm whose pattern fits (c, x, y, d). *)
Dispatch(op) ==
    LET c == DecodeC(op)
        x == DecodeX(op)
        y == DecodeY(op)
        d == DecodeD(op)
    IN  IF c = 0 /\ x = 0 /\ y = 0 /\ d = 0 THEN "halt"
        ELSE IF c = 0 /\ x = 0 /\ y = 14 /\ d = 14 THEN "ret"
        ELSE IF c = 2 THEN "call"
        ELSE IF c = 8 /\ d = 4 THEN "add_xy"
        ELSE "todo"

(* overflowing_add on u8: the wrapped sum and whether it overflowed. *)
OverflowingAdd(a, b) == <<(a + b) % U8, a + b >= U8>>

----------------------------------------------------------------------------
(* The effects of the instructions on the fields they write. *)

(* add_xy with a flag that is raised on overflow and never lowered. *)
AddXYRegisters_StickyCarry(regs, x, y) ==
    LET sum == OverflowingAdd(regs[x], regs[y])
        stored == [regs EXCEPT ![x] = sum[1]]
    IN  IF sum[2] THEN [stored EXCEPT ![CarryFlag] = 1] ELSE stored

(* add_xy with the flag of the last addition carried into this one. *)
AddXYRegisters_CarryIn(regs, x, y) ==
    LET total == regs[x] + regs[y] + regs[CarryFlag]
        stored == [regs EXCEPT ![x] = total % U8]
    IN  IF total >= U8 THEN [stored EXCEPT ![CarryFlag] = 1]
                       ELSE [stored EXCEPT ![CarryFlag] = 0]

(* add_xy storing the sum in registers[y] as well. *)
AddXYRegisters_StoresInY(regs, x, y) ==
    LET sum == OverflowingAdd(regs[x], regs[y])
        stored == [regs EXCEPT ![x] = sum[1], ![y] = sum[1]]
    IN  IF sum[2] THEN [stored EXCEPT ![CarryFlag] = 1]
                  ELSE [stored EXCEPT ![CarryFlag] = 0]

(* add_xy: registers[x] receives the wrapped sum, then the carry flag is   *)
(* written to registers[0xF].                                              *)
AddXYRegisters(regs, x, y) ==
    LET arg1 == regs[x]
        arg2 == regs[y]
        sum == OverflowingAdd(arg1, arg2)
        stored == [regs EXCEPT ![x] = sum[1]]
    IN  IF sum[2] THEN [stored EXCEPT ![CarryFlag] = 1]
                  ELSE [stored EXCEPT ![CarryFlag] = 0]

(* call refusing the last free slot. *)
CallOverflows_OneEarly(sp_, len) == sp_ >= len - 1

(* The guard at the head of call. *)
CallOverflows(sp_, len) == sp_ > len

(* call with a write to stack[sp] that no bounds check guards. *)
CallPanic_Unchecked(sp_) ==
    IF CallOverflows(sp_, StackSize) THEN StackOverflow ELSE NoFault

(* call: the panic it ends in, NoFault when it completes. *)
CallPanic(sp_) ==
    IF CallOverflows(sp_, StackSize) THEN StackOverflow
    ELSE IF ~InBounds(sp_, StackSize) THEN IndexOutOfBounds(StackSize, sp_)
    ELSE NoFault

(* call saving the address of the second byte of the CALL. *)
CallStack_OffByOne(stk, sp_, pc) == [stk EXCEPT ![sp_] = AsU16(pc - 1)]

(* call saving the address of the CALL itself. *)
CallStack_CallSite(stk, sp_, pc) == [stk EXCEPT ![sp_] = AsU16(pc - 2)]

(* call saving every return address in slot 0. *)
CallStack_BottomSlot(stk, sp_, pc) == [stk EXCEPT ![0] = AsU16(pc)]

(* call: the stack after stack[sp] = position_in_memory as u16. *)
CallStack(stk, sp_, pc) == [stk EXCEPT ![sp_] = AsU16(pc)]

(* call without its stack_pointer += 1. *)
CallStackPointer_NoIncrement(sp_) == sp_

(* call: stack_pointer after the push. *)
CallStackPointer(sp_) == sp_ + 1

(* ret refusing to pop the last frame. *)
RetUnderflows_OffByOne(sp_) == sp_ <= 1

(* ret: the guard at its head. *)
RetUnderflows(sp_) == sp_ = 0

(* ret: stack_pointer after the pop. *)
RetStackPointer(sp_) == sp_ - 1

----------------------------------------------------------------------------
(* The caller: a zeroed CPU, then registers and memory seeded.             *)

(* A program is a function from addresses to instruction words; loading it *)
(* stores each word high byte first, as main does.                         *)
Image(prog) ==
    [i \in (DOMAIN prog) \cup { a + 1 : a \in DOMAIN prog } |->
        IF i \in DOMAIN prog THEN prog[i] \div 256 ELSE prog[i - 1] % 256]

Seed(r0, r1, rf) ==
    [i \in 0 .. NumRegisters - 1 |->
        IF i = 0 THEN r0 ELSE IF i = 1 THEN r1 ELSE IF i = CarryFlag THEN rf ELSE 0]

(* The program and the registers of main. *)
MainProgram ==
    (0 :> 8448) @@ (2 :> 8448) @@ (4 :> 0) @@
    (256 :> 32788) @@ (258 :> 32788) @@ (260 :> 238)
MainRegisters == Seed(5, 10, 0)

(* Programs tried besides main's: MainLen words at 0x000.. drawn from     *)
(* MainWords, a subroutine of two words at 0x100.. drawn from SubWords,   *)
(* and one word at the top of memory drawn from TopWords.                 *)
MainLen == 2
SubAddrs == {256, 258}
TopAddrs == {4094}

MainWords ==
    { 0,        \* 0x0000 HALT
      238,      \* 0x00EE RETURN
      8192,     \* 0x2000 CALL 0x000
      8448,     \* 0x2100 CALL 0x100
      8449,     \* 0x2101 CALL 0x101
      12286,    \* 0x2FFE CALL 0xFFE
      12287,    \* 0x2FFF CALL 0xFFF
      32788,    \* 0x8014 ADD R0,R1
      224 }     \* 0x00E0 not implemented

SubWords ==
    { 0,        \* 0x0000 HALT
      238,      \* 0x00EE RETURN
      8448,     \* 0x2100 CALL 0x100
      36628,    \* 0x8F14 ADD RF,R1
      32789 }   \* 0x8015 not implemented

TopWords ==
    { 0,        \* 0x0000 HALT
      32788 }   \* 0x8014 ADD R0,R1

MainAddrs == { 2 * k : k \in 0 .. MainLen - 1 }

Programs ==
    { main @@ sub @@ top :
        main \in [MainAddrs -> MainWords],
        sub \in [SubAddrs -> SubWords],
        top \in [TopAddrs -> TopWords] }

Loads == (Programs \X {Seed(200, 100, 1)}) \cup {<<MainProgram, MainRegisters>>}

(* main: the CPU as constructed, but for the registers and memory of the load. *)
Start(loads) ==
    /\ \E load \in loads :
          /\ memory = Image(load[1])
          /\ seed = load[2]
    /\ registers = seed
    /\ position_in_memory = 0
    /\ stack = [i \in 0 .. StackSize - 1 |-> 0]
    /\ stack_pointer = 0
    /\ state = "Running"
    /\ fault = NoFault
    /\ opcode = 0
    /\ p = 0
    /\ sp = 0

Init == Start(Loads)

----------------------------------------------------------------------------
(* One iteration of the loop of run: each action is one way it goes, by    *)
(* what read_opcode returns and the arm of the match that the word takes.  *)

Fetched == ReadOpcode(memory, position_in_memory)

(* The arm taken by the word at position_in_memory, "panic" if the fetch panics. *)
Arm == IF Fetched.ok THEN Dispatch(Fetched.word) ELSE "panic"

(* read_opcode panics: nothing else has been written yet. *)
FetchPanic ==
    /\ state = "Running"
    /\ Arm = "panic"
    /\ p' = position_in_memory
    /\ state' = "Faulted"
    /\ fault' = Fetched.panic
    /\ UNCHANGED <<registers, position_in_memory, memory, stack, stack_pointer,
                   opcode, sp, seed>>

(* (0, 0, 0, 0) => return *)
Halt ==
    /\ state = "Running"
    /\ Arm = "halt"
    /\ p' = position_in_memory
    /\ opcode' = Fetched.word
    /\ position_in_memory' = position_in_memory + 2
    /\ state' = "Halted"
    /\ UNCHANGED <<registers, memory, stack, stack_pointer, fault, sp, seed>>

(* (0, 0, 0xE, 0xE) => self.ret() *)
Ret ==
    /\ state = "Running"
    /\ Arm = "ret"
    /\ p' = position_in_memory
    /\ opcode' = Fetched.word
    /\ IF RetUnderflows(stack_pointer)
       THEN /\ position_in_memory' = position_in_memory + 2
            /\ state' = "Faulted"
            /\ fault' = StackUnderflow
            /\ UNCHANGED stack_pointer
       ELSE IF ~InBounds(RetStackPointer(stack_pointer), StackSize)
       THEN /\ stack_pointer' = RetStackPointer(stack_pointer)
            /\ position_in_memory' = position_in_memory + 2
            /\ state' = "Faulted"
            /\ fault' = IndexOutOfBounds(StackSize, RetStackPointer(stack_pointer))
       ELSE /\ stack_pointer' = RetStackPointer(stack_pointer)
            /\ position_in_memory' = stack[RetStackPointer(stack_pointer)]
            /\ UNCHANGED <<state, fault>>
    /\ UNCHANGED <<registers, memory, stack, sp, seed>>

(* call saving the return address in memory[sp] instead of stack[sp]. *)
Call_SavesInMemory ==
    /\ state = "Running"
    /\ Arm = "call"
    /\ p' = position_in_memory
    /\ opcode' = Fetched.word
    /\ sp' = stack_pointer
    /\ memory' = (stack_pointer :> AsU8(position_in_memory + 2)) @@ memory
    /\ stack_pointer' = CallStackPointer(stack_pointer)
    /\ position_in_memory' = DecodeNNN(Fetched.word)
    /\ UNCHANGED <<registers, stack, state, fault, seed>>

(* (0x2, _, _, _) => self.call(nnn) *)
Call ==
    /\ state = "Running"
    /\ Arm = "call"
    /\ p' = position_in_memory
    /\ opcode' = Fetched.word
    /\ sp' = stack_pointer
    /\ IF CallPanic(stack_pointer) # NoFault
       THEN /\ position_in_memory' = position_in_memory + 2
            /\ state' = "Faulted"
            /\ fault' = CallPanic(stack_pointer)
            /\ UNCHANGED <<stack, stack_pointer>>
       ELSE /\ stack' = CallStack(stack, stack_pointer, position_in_memory + 2)
            /\ stack_pointer' = CallStackPointer(stack_pointer)
            /\ position_in_memory' = DecodeNNN(Fetched.word)
            /\ UNCHANGED <<state, fault>>
    /\ UNCHANGED <<registers, memory, seed>>

(* (0x8, _, _, 0x4) => self.add_xy(x, y) *)
AddXY ==
    /\ state = "Running"
    /\ Arm = "add_xy"
    /\ p' = position_in_memory
    /\ opcode' = Fetched.word
    /\ position_in_memory' = position_in_memory + 2
    /\ registers' = AddXYRegisters(registers, DecodeX(Fetched.word), DecodeY(Fetched.word))
    /\ UNCHANGED <<memory, stack, stack_pointer, state, fault, sp, seed>>

(* _ => todo!("opcode {:04x}", opcode) *)
Todo ==
    /\ state = "Running"
    /\ Arm = "todo"
    /\ p' = position_in_memory
    /\ opcode' = Fetched.word
    /\ position_in_memory' = position_in_memory + 2
    /\ state' = "Faulted"
    /\ fault' = NotYetImplemented(Fetched.word)
    /\ UNCHANGED <<registers, memory, stack, stack_pointer, sp, seed>>

Next == FetchPanic \/ Halt \/ Ret \/ Call \/ AddXY \/ Todo

Spec == Init /\ [][Next]_vars

(* Programs of calls and returns: two words at 0x000.. and one at 0x100,   *)
(* each drawn from LiveWords.                                              *)
LiveAddrs == {0, 2, 256}

LiveWords ==
    { 0,        \* 0x0000 HALT
      238,      \* 0x00EE RETURN
      8192,     \* 0x2000 CALL 0x000
      8194,     \* 0x2002 CALL 0x002
      8448,     \* 0x2100 CALL 0x100
      12287,    \* 0x2FFF CALL 0xFFF
      32788,    \* 0x8014 ADD R0,R1
      224 }     \* 0x00E0 not implemented

LiveLoads == [LiveAddrs -> LiveWords] \X {MainRegisters}

InitLive == Start(LiveLoads)

SpecCalls == InitLive /\ [][Next]_vars

(* run is a loop on one thread with nothing to wait for: while it has      *)
(* neither returned nor panicked, its next iteration is taken.             *)
SpecLive == InitLive /\ [][Next]_vars /\ WF_vars(Next)

----------------------------------------------------------------------------
(* Single instructions: every ADD word with chosen operands, and every     *)
(* 16-bit word, each loaded at address 0 of an otherwise zeroed CPU.       *)

AddWord(x, y) == 32772 + x * 256 + y * 16     \* 0x8xy4

EdgeBytes == {0, 1, 127, 128, 255}
SpreadBytes == { 17 * k : k \in 0 .. 15 }

(* Registers x and y hold a and b (a alone when x = y), the others 3. *)
Operands(x, y, a, b) ==
    [i \in 0 .. NumRegisters - 1 |-> IF i = x THEN a ELSE IF i = y THEN b ELSE 3]

AddLoads ==
    { <<(0 :> AddWord(x, y)), Operands(x, y, a, b)>> :
        x \in 0 .. NumRegisters - 1, y \in 0 .. NumRegisters - 1,
        a \in EdgeBytes, b \in EdgeBytes }
    \cup
    { <<(0 :> AddWord(xy[1], xy[2])), Operands(xy[1], xy[2], a, b)>> :
        xy \in {<<0, 1>>, <<15, 1>>}, a \in 0 .. U8 - 1, b \in SpreadBytes }

WordLoads == { <<(0 :> w), MainRegisters>> : w \in 0 .. U16 - 1 }

InitAdd == Start(AddLoads)
NextAdd == AddXY \/ Halt
SpecAdd == InitAdd /\ [][NextAdd]_vars

InitWord == Start(WordLoads)
SpecWord == InitWord /\ [][Next]_vars

----------------------------------------------------------------------------
(* The instruction encoding, read arithmetically. *)

WordAt(a) == Byte(memory, a) * 256 + Byte(memory, a + 1)
CanFetch == position_in_memory + 1 <= MemSize - 1
NextWord == WordAt(position_in_memory)

Nibble(w, k) == (w \div (16 ^ k)) % 16
IsHaltWord(w) == w = 0
IsRetWord(w) == w = 238
IsCallWord(w) == Nibble(w, 3) = 2
IsAddWord(w) == Nibble(w, 3) = 8 /\ Nibble(w, 0) = 4
Implemented(w) == IsHaltWord(w) \/ IsRetWord(w) \/ IsCallWord(w) \/ IsAddWord(w)

----------------------------------------------------------------------------
(* C1, as stated: executing ADD Rx,Ry (0x8xy4) with a = registers[x] and   *)
(* b = registers[y] leaves registers[x] = (a + b) mod 256 and registers[15] *)
(* = 1 if a + b >= 256, else 0, for every x and y in 0..15.                 *)
C1_AddAnyTarget ==
    [][ (state = "Running" /\ CanFetch /\ IsAddWord(NextWord)) =>
          LET x == Nibble(NextWord, 2)
              y == Nibble(NextWord, 1)
              a == registers[x]
              b == registers[y]
          IN  /\ registers'[x] = (a + b) % 256
              /\ registers'[15] = IF a + b >= 256 THEN 1 ELSE 0 ]_vars

(* C1, amended: executing ADD Rx,Ry (0x8xy4) with a = registers[x] and     *)
(* b = registers[y] leaves registers[15] = 1 if a + b >= 256, else 0, for   *)
(* every x and y in 0..15, and leaves registers[x] = (a + b) mod 256 for    *)
(* every x other than 15: with x = 15 the flag overwrites the sum.          *)
C1_AddSumAndCarry ==
    [][ (state = "Running" /\ CanFetch /\ IsAddWord(NextWord)) =>
          LET x == Nibble(NextWord, 2)
              y == Nibble(NextWord, 1)
              a == registers[x]
              b == registers[y]
          IN  /\ x # 15 => registers'[x] = (a + b) % 256
              /\ registers'[15] = IF a + b >= 256 THEN 1 ELSE 0
              /\ state' = "Running" ]_vars

(* An ADD at address 0 has run, its operands summed past 255, and the flag is up. *)
C1_Witness ==
    /\ state = "Running"
    /\ p = 0
    /\ IsAddWord(opcode)
    /\ Nibble(opcode, 2) # 15
    /\ seed[Nibble(opcode, 2)] + seed[Nibble(opcode, 1)] >= 256
    /\ registers[Nibble(opcode, 2)] = (seed[Nibble(opcode, 2)] + seed[Nibble(opcode, 1)]) - 256
    /\ registers[15] = 1

(* C2: a CALL nnn fetched at p with a free stack slot, followed at once by *)
(* a RETURN at nnn, leaves position_in_memory = p + 2 and stack_pointer as  *)
(* it was before the CALL.                                                  *)
C2_CallThenReturn ==
    [][ ( /\ state = "Running"
          /\ IsCallWord(opcode)
          /\ opcode = WordAt(p)
          /\ position_in_memory = opcode % 4096
          /\ CanFetch
          /\ IsRetWord(NextWord) ) =>
        ( /\ state' = "Running"
          /\ position_in_memory' = p + 2
          /\ stack_pointer' = sp ) ]_vars

(* CALL 0x100 at address 2 ran on an empty stack, and the RETURN at 0x100   *)
(* came back to address 4 with the stack empty again.                       *)
C2_Witness ==
    /\ state = "Running"
    /\ IsRetWord(opcode)
    /\ p = 256
    /\ IsCallWord(WordAt(2))
    /\ WordAt(2) % 4096 = 256
    /\ position_in_memory = 4
    /\ stack_pointer = 0
    /\ sp = 0

(* C3: a CALL found with stack_pointer < 16 succeeds, leaving the run going *)
(* with stack_pointer one higher, so 16 CALLs in a row from an empty stack  *)
(* end at 16; a CALL found with stack_pointer = 16, the 17th, faults and    *)
(* pushes nothing.                                                          *)
C3_SixteenCalls ==
    [][ (state = "Running" /\ CanFetch /\ IsCallWord(NextWord)) =>
          IF stack_pointer < 16
          THEN /\ state' = "Running"
               /\ stack_pointer' = stack_pointer + 1
               /\ position_in_memory' = NextWord % 4096
          ELSE /\ stack_pointer = 16
               /\ state' = "Faulted"
               /\ stack_pointer' = stack_pointer
               /\ stack' = stack ]_vars

(* The 17th CALL in a row of the program CALL 0x000 at 0x000 has faulted. *)
C3_Witness ==
    /\ state = "Faulted"
    /\ IsCallWord(opcode)
    /\ WordAt(0) = 8192
    /\ p = 0
    /\ sp = 16
    /\ stack_pointer = 16
    /\ \A i \in 0 .. 15 : stack[i] = 2

(* C4: a RETURN with stack_pointer = 0 faults with a stack underflow and   *)
(* changes neither stack_pointer, the stack nor a register; a RETURN with  *)
(* stack_pointer > 0 does not fault.                                       *)
C4_ReturnUnderflow ==
    [][ (state = "Running" /\ CanFetch /\ IsRetWord(NextWord)) =>
          IF stack_pointer = 0
          THEN /\ state' = "Faulted"
               /\ fault' = StackUnderflow
               /\ stack_pointer' = stack_pointer
               /\ stack' = stack
               /\ registers' = registers
          ELSE /\ state' = "Running"
               /\ fault' = NoFault ]_vars

(* A RETURN met after a CALL had returned, with the stack empty again, has faulted. *)
C4_Witness ==
    /\ state = "Faulted"
    /\ fault = StackUnderflow
    /\ IsRetWord(opcode)
    /\ p > 0
    /\ stack_pointer = 0

(* C5: fetching 0x0000 halts the run with registers, memory, stack and     *)
(* stack_pointer as they were; nothing runs after the run has halted; and  *)
(* the run halts on no other word.                                         *)
C5_HaltStops ==
    [][ /\ (state = "Running" /\ CanFetch /\ IsHaltWord(NextWord)) =>
              /\ state' = "Halted"
              /\ registers' = registers
              /\ memory' = memory
              /\ stack' = stack
              /\ stack_pointer' = stack_pointer
        /\ state' = "Halted" => (CanFetch /\ IsHaltWord(NextWord))
        /\ state # "Running" => FALSE
        /\ state' \in {"Running", "Halted", "Faulted"} ]_vars

(* The run has halted on a HALT it reached after other instructions had    *)
(* changed the registers.                                                  *)
C5_Witness ==
    /\ state = "Halted"
    /\ opcode = 0
    /\ p > 0
    /\ registers # seed
    /\ fault = NoFault

(* C6: main's program, run on main's registers, ends Halted with           *)
(* registers[0] = 45, registers[15] = 0, stack_pointer = 0 and              *)
(* position_in_memory = 6, just past the HALT word.                         *)
C6_MainProgram ==
    (memory = Image(MainProgram) /\ seed = MainRegisters /\ state # "Running") =>
        /\ state = "Halted"
        /\ registers[0] = 45
        /\ registers[15] = 0
        /\ stack_pointer = 0
        /\ position_in_memory = 6

(* main's run has ended, on the HALT at 0x004, with both subroutine calls added in. *)
C6_Witness ==
    /\ memory = Image(MainProgram)
    /\ seed = MainRegisters
    /\ state = "Halted"
    /\ p = 4
    /\ registers[0] = 5 + 10 + 10 + 10 + 10

(* C7: a fetched word that is none of 0x0000, 0x00EE, 0x2nnn and 0x8xy4    *)
(* faults the run, the fault names the word, and registers, memory, stack   *)
(* and stack_pointer stay as they were.                                     *)
C7_UnimplementedFaults ==
    [][ (state = "Running" /\ CanFetch /\ ~Implemented(NextWord)) =>
          /\ state' = "Faulted"
          /\ fault' = NotYetImplemented(NextWord)
          /\ registers' = registers
          /\ memory' = memory
          /\ stack' = stack
          /\ stack_pointer' = stack_pointer ]_vars

(* The word 0x8015, one off an ADD, has faulted the run and is named by the fault. *)
C7_Witness ==
    /\ state = "Faulted"
    /\ opcode = 32789
    /\ fault = NotYetImplemented(32789)
    /\ registers = seed

(* C8: a fetch at p with p + 1 outside memory faults the run and executes  *)
(* nothing, and every fetch that does not fault reads p and p + 1 within    *)
(* 0..4095.                                                                 *)
C8_FetchOutOfBounds ==
    [][ /\ (state = "Running" /\ position_in_memory >= 4095) =>
              /\ state' = "Faulted"
              /\ fault'.kind = "index out of bounds"
              /\ fault'.info[1] = MemSize
              /\ fault'.info[2] >= MemSize
              /\ opcode' = opcode
              /\ registers' = registers
              /\ memory' = memory
              /\ stack' = stack
              /\ stack_pointer' = stack_pointer
              /\ position_in_memory' = position_in_memory
        /\ (state = "Running" /\ opcode' = WordAt(p') /\ fault' # IndexOutOfBounds(MemSize, MemSize)) =>
              (p' >= 0 /\ p' + 1 <= 4095)
        /\ p' = position_in_memory ]_vars

(* CALL 0xFFF has run, and the fetch at 4095 has faulted on index 4096. *)
C8_Witness ==
    /\ state = "Faulted"
    /\ fault = IndexOutOfBounds(4096, 4096)
    /\ p = 4095
    /\ position_in_memory = 4095
    /\ opcode = 12287

(* C9: the word fetched at p, with p + 1 <= 4095, is memory[p] * 256 +     *)
(* memory[p + 1], and a word w decodes to c = bits 12-15, x = bits 8-11,    *)
(* y = bits 4-7, d = bits 0-3 and nnn = bits 0-11, so w = c * 4096 +        *)
(* x * 256 + y * 16 + d and nnn = w mod 4096; 0x8014 decodes to 8, 0, 1, 4  *)
(* and 0x014.                                                               *)
C9_FetchAndDecode ==
    [][ (state = "Running" /\ CanFetch) =>
          LET w == opcode'
              c == DecodeC(w)
              x == DecodeX(w)
              y == DecodeY(w)
              d == DecodeD(w)
              nnn == DecodeNNN(w)
          IN  /\ w = Byte(memory, position_in_memory) * 256
                       + Byte(memory, position_in_memory + 1)
              /\ c = Nibble(w, 3)
              /\ x = Nibble(w, 2)
              /\ y = Nibble(w, 1)
              /\ d = Nibble(w, 0)
              /\ w = c * 4096 + x * 256 + y * 16 + d
              /\ nnn = w % 4096
              /\ w = 32788 => (c = 8 /\ x = 0 /\ y = 1 /\ d = 4 /\ nnn = 20) ]_vars

(* 0x8014 has been fetched from the bytes 0x80, 0x14 at address 0 and run as ADD R0,R1. *)
C9_Witness ==
    /\ p = 0
    /\ Byte(memory, 0) = 128
    /\ Byte(memory, 1) = 20
    /\ opcode = 32788
    /\ DecodeC(opcode) = 8
    /\ DecodeX(opcode) = 0
    /\ DecodeY(opcode) = 1
    /\ DecodeD(opcode) = 4
    /\ DecodeNNN(opcode) = 20
    /\ registers[0] = seed[0] + seed[1]

(* C10: 0 <= stack_pointer <= 16 in every state of a run begun with        *)
(* stack_pointer = 0.                                                       *)
C10_StackPointerInRange == stack_pointer >= 0 /\ stack_pointer <= 16

(* Sixteen CALLs deep, the run still going. *)
C10_Witness ==
    /\ state = "Running"
    /\ stack_pointer = 16
    /\ IsCallWord(opcode)

(* C11: a CALL found with stack_pointer >= 16 is refused by the           *)
(* stack-overflow check of call, as a stack-overflow fault, before any      *)
(* write: the stack and stack_pointer are after the fault as before.        *)
C11_OverflowCheckRefuses ==
    [][ (state = "Running" /\ CanFetch /\ IsCallWord(NextWord) /\ stack_pointer >= 16) =>
          /\ state' = "Faulted"
          /\ fault' = StackOverflow
          /\ stack' = stack
          /\ stack_pointer' = stack_pointer ]_vars

(* The registers with register 15 holding v instead. *)
WithFlag(regs, v) == [regs EXCEPT ![15] = v]

(* C12, as stated: ADD Rx,Ry ends with the same registers whatever value   *)
(* register 15 held before it, for every x and y in 0..15.                  *)
C12_AddIgnoresFlag ==
    [][ (state = "Running" /\ CanFetch /\ IsAddWord(NextWord)) =>
          \A v \in 0 .. 255 :
              AddXYRegisters(WithFlag(registers, v),
                             Nibble(NextWord, 2), Nibble(NextWord, 1)) = registers' ]_vars

(* C12, amended: ADD Rx,Ry ends with the same registers whatever value     *)
(* register 15 held before it, for every x and y in 0..14; with x = 15 or   *)
(* y = 15 register 15 is an operand and is read.                            *)
C12_AddIgnoresFlagUnlessOperand ==
    [][ ( /\ state = "Running" /\ CanFetch /\ IsAddWord(NextWord)
          /\ Nibble(NextWord, 2) # 15
          /\ Nibble(NextWord, 1) # 15 ) =>
          \A v \in 0 .. 255 :
              AddXYRegisters(WithFlag(registers, v),
                             Nibble(NextWord, 2), Nibble(NextWord, 1)) = registers' ]_vars

(* An ADD of two registers other than 15 has run with register 15 seeded   *)
(* with 3, and has lowered it to 0.                                         *)
C12_Witness ==
    /\ state = "Running"
    /\ p = 0
    /\ IsAddWord(opcode)
    /\ Nibble(opcode, 2) # 15
    /\ Nibble(opcode, 1) # 15
    /\ seed[15] = 3
    /\ registers[15] = 0
    /\ registers[Nibble(opcode, 2)] = seed[Nibble(opcode, 2)] + seed[Nibble(opcode, 1)]

(* A CALL with an odd nnn at an even address.  A CALL has a high byte     *)
(* other than 0, so it lies within the bytes the caller stored.             *)
OddCallAt(a) == IsCallWord(WordAt(a)) /\ (WordAt(a) % 4096) % 2 = 1
NoOddCall == \A a \in DOMAIN memory : a % 2 = 0 => ~OddCallAt(a)

(* C13, as stated: from position_in_memory = 0, position_in_memory is even *)
(* at each fetch, for any memory contents.                                  *)
C13_AlwaysEven == state = "Running" => position_in_memory % 2 = 0

(* C13, amended: from position_in_memory = 0, position_in_memory is even   *)
(* at each fetch, for any memory contents that hold no CALL with an odd nnn *)
(* at an even address; such a CALL makes position_in_memory odd.            *)
C13_EvenUnlessOddCall == NoOddCall => position_in_memory % 2 = 0

(* No CALL has an odd nnn, and a CALL 0x100 and its RETURN have come back  *)
(* to the even address 2.                                                   *)
C13_Witness ==
    /\ NoOddCall
    /\ state = "Running"
    /\ IsRetWord(opcode)
    /\ p = 256
    /\ stack[0] = 2
    /\ position_in_memory = 2

(* C14: from any memory image and registers, with position_in_memory in *)
(* range and an empty stack, run ends: it reaches Halted or Faulted.        *)
C14_RunEnds == <>(state # "Running")

(* A run that went sixteen CALLs deep and added on the way has ended. *)
C14_Witness ==
    /\ state = "Faulted"
    /\ stack_pointer = 16
    /\ registers # seed
    /\ p >= 256

(* C15: the call stack is last-in first-out.  A CALL that succeeds saves  *)
(* the address after it in the slot at stack_pointer and raises             *)
(* stack_pointer by one; a RETURN that succeeds lowers stack_pointer by one *)
(* and goes to the address in the topmost saved slot, the one of the latest *)
(* CALL not yet returned from; and no step changes a slot that is below     *)
(* stack_pointer before and after it.                                       *)
C15_LastInFirstOut ==
    [][ /\ (state = "Running" /\ CanFetch /\ IsCallWord(NextWord) /\ state' = "Running") =>
              /\ stack_pointer' = stack_pointer + 1
              /\ stack'[stack_pointer] = position_in_memory + 2
        /\ (state = "Running" /\ CanFetch /\ IsRetWord(NextWord) /\ state' = "Running") =>
              /\ stack_pointer' = stack_pointer - 1
              /\ position_in_memory' = stack[stack_pointer - 1]
              /\ stack' = stack
        /\ \A i \in 0 .. StackSize - 1 :
              (i < stack_pointer /\ i < stack_pointer') => stack'[i] = stack[i] ]_vars

(* CALL 0x100 at 0x000, then CALL 0x002 at 0x100, then the RETURN at 0x002 *)
(* has gone back to 0x102, the address the inner CALL saved, with the       *)
(* address the outer CALL saved still below it.                             *)
C15_Witness ==
    /\ state = "Running"
    /\ IsRetWord(opcode)
    /\ p = 2
    /\ position_in_memory = 258
    /\ stack_pointer = 1
    /\ stack[0] = 2
    /\ stack[1] = 258

(* C16: run never writes to memory: no step of a run, the last one       *)
(* included, changes a byte of it.                                          *)
C16_MemoryNeverWritten == [][memory' = memory]_vars

(* Seventeen CALLs on, the run has faulted and the CALL 0x000 that the     *)
(* caller stored at 0x000 is still there.                                   *)
C16_Witness ==
    /\ state = "Faulted"
    /\ sp = 16
    /\ stack[15] = 2
    /\ WordAt(0) = 8192
    /\ DOMAIN memory = {0, 1, 2, 3, 256, 257, 258, 259, 4094, 4095}

(* C17: ADD Rx,Ry changes no register but x and 15, leaves the stack and *)
(* stack_pointer alone and moves position_in_memory on by 2; CALL and       *)
(* RETURN change no register, and of the stack RETURN changes nothing and   *)
(* CALL only the slot at stack_pointer; none of them changes memory.        *)
C17_FrameOfEachInstruction ==
    [][ /\ (state = "Running" /\ CanFetch /\ IsAddWord(NextWord)) =>
              /\ \A i \in 0 .. 15 :
                    (i # Nibble(NextWord, 2) /\ i # 15) => registers'[i] = registers[i]
              /\ stack' = stack
              /\ stack_pointer' = stack_pointer
              /\ position_in_memory' = position_in_memory + 2
              /\ memory' = memory
        /\ (state = "Running" /\ CanFetch /\ IsCallWord(NextWord)) =>
              /\ registers' = registers
              /\ \A i \in 0 .. 15 : i # stack_pointer => stack'[i] = stack[i]
              /\ memory' = memory
        /\ (state = "Running" /\ CanFetch /\ IsRetWord(NextWord)) =>
              /\ registers' = registers
              /\ stack' = stack
              /\ memory' = memory ]_vars

(* Inside a subroutine ADD RF,R1 has run: the flag is rewritten, R0 and R1 *)
(* and the saved return address are as they were.                           *)
C17_Witness ==
    /\ state = "Running"
    /\ opcode = 36628
    /\ p = 256
    /\ stack_pointer = 1
    /\ stack[0] = 2
    /\ registers[15] # seed[15]
    /\ registers[0] = seed[0]
    /\ registers[1] = seed[1]

(* C18: from position_in_memory = 0 and an empty stack,                  *)
(* position_in_memory stays within 0..4096 and every saved return address   *)
(* below stack_pointer within 2..4096, so the u16 of a stack slot holds     *)
(* position_in_memory without truncating it.                                *)
C18_AddressesInRange ==
    /\ position_in_memory >= 0
    /\ position_in_memory <= 4096
    /\ AsU16(position_in_memory) = position_in_memory
    /\ \A i \in 0 .. StackSize - 1 :
          i < stack_pointer => (stack[i] >= 2 /\ stack[i] <= 4096)

(* Inside a call, the ADD at 0xFFE has moved position_in_memory to 4096,   *)
(* and the fetch there has faulted.                                         *)
C18_Witness ==
    /\ state = "Faulted"
    /\ position_in_memory = 4096
    /\ p = 4096
    /\ stack_pointer = 1
    /\ stack[0] >= 2
    /\ IsAddWord(opcode)

====
